---- MODULE Spec2Model ----
(***************************************************************************)
(* A model of @jameslnewell/git-diff: the Diff class (an insertion-ordered *)
(* Map from path to status with filter/match queries), the parser of the   *)
(* `git diff --name-status` output, and the diffAsync/diffSync operations  *)
(* with their bad-revision error classifier.                               *)
(*                                                                         *)
(* Strings are sequences of one-character strings.  A JavaScript Map is a  *)
(* sequence of <<key, value>> pairs with distinct keys, in insertion order.*)
(***************************************************************************)
EXTENDS Integers, Sequences, FiniteSets, TLC

VARIABLES
    stdout,      \* SpecParse: the text handed to parse
    parsed,      \* SpecParse: the outcome of parse(stdout)
    blanked,     \* SpecParse: stdout with a blank line more, and its parse
    diff,        \* SpecQuery: the #diff Map of the Diff under query
    result,      \* SpecQuery: the last query made and what it returned
    heap,        \* SpecConstruct: the Map objects, by reference
    this_diff,   \* SpecConstruct: the reference held in this.#diff
    built,       \* SpecConstruct: the entries of the Diff when constructed
    steps,       \* SpecConstruct: number of caller mutations so far
    git,         \* SpecDiff: what the git command did (text or failure)
    syncRes,     \* SpecDiff: the outcome of diffSync
    asyncRes,    \* SpecDiff: the outcome of diffAsync
    asyncPc      \* SpecDiff: where diffAsync is (its await)

vars == <<stdout, parsed, blanked, diff, result, heap, this_diff, built, steps,
          git, syncRes, asyncRes, asyncPc>>

parseVars == <<stdout, parsed, blanked>>
queryVars == <<diff, result>>
constructVars == <<heap, this_diff, built, steps>>
diffVars == <<git, syncRes, asyncRes, asyncPc>>

None == [kind |-> "none"]

----------------------------------------------------------------------------
(* Sequences and strings                                                   *)

\* All sequences over S of length at most n.
SeqsUpTo(S, n) == UNION {[1..k -> S] : k \in 0..n}

\* Array.prototype.includes / "x occurs in the sequence".
Includes(seq, x) == \E i \in 1..Len(seq) : seq[i] = x

\* The sequence without its element at index i.
RemoveAt(seq, i) == SubSeq(seq, 1, i - 1) \o SubSeq(seq, i + 1, Len(seq))

----------------------------------------------------------------------------
(* JavaScript Map: insertion-ordered, keys distinct                        *)

MapHas(m, k) == \E i \in 1..Len(m) : m[i][1] = k

MapIndex(m, k) == CHOOSE i \in 1..Len(m) : m[i][1] = k

\* Map.prototype.set: an existing key keeps its position and takes the new
\* value; a new key is appended.
MapSet(m, k, v) ==
    IF MapHas(m, k)
    THEN [m EXCEPT ![MapIndex(m, k)] = <<k, v>>]
    ELSE Append(m, <<k, v>>)

\* Map.prototype.delete
MapDelete(m, k) == IF MapHas(m, k) THEN RemoveAt(m, MapIndex(m, k)) ELSE m

\* new Map(iterable): set() of each pair in turn.
RECURSIVE MapFrom(_, _)
MapFrom(pairs, m) ==
    IF pairs = <<>> THEN m
    ELSE MapFrom(Tail(pairs), MapSet(m, Head(pairs)[1], Head(pairs)[2]))

NewMap(pairs) == MapFrom(pairs, <<>>)

MapKeys(m) == [i \in 1..Len(m) |-> m[i][1]]
MapValues(m) == [i \in 1..Len(m) |-> m[i][2]]

IsMap(m) == \A i, j \in 1..Len(m) : m[i][1] = m[j][1] => i = j

----------------------------------------------------------------------------
(* parse: the change-list parser                                           *)

\* Characters of the modelled change-list text: two word characters (\w),
\* a whitespace character, a non-word non-whitespace character, newline.
WordChars == {"A", "M"}
SpaceChars == {" "}
LineChars == WordChars \cup SpaceChars \cup {"."}
TextChars == LineChars \cup {"\n"}

MaxTextLen == 7

\* String.prototype.split('\n')
RECURSIVE SplitFrom(_, _, _)
SplitFrom(text, sep, cur) ==
    IF text = <<>> THEN <<cur>>
    ELSE IF Head(text) = sep
         THEN <<cur>> \o SplitFrom(Tail(text), sep, <<>>)
         ELSE SplitFrom(Tail(text), sep, Append(cur, Head(text)))

Split(text, sep) == SplitFrom(text, sep, <<>>)

\* String.prototype.trim
RECURSIVE TrimStart(_)
TrimStart(s) ==
    IF s # <<>> /\ Head(s) \in SpaceChars THEN TrimStart(Tail(s)) ELSE s

RECURSIVE TrimEnd(_)
TrimEnd(s) ==
    IF s # <<>> /\ s[Len(s)] \in SpaceChars
    THEN TrimEnd(SubSeq(s, 1, Len(s) - 1)) ELSE s

Trim(s) == TrimEnd(TrimStart(s))

\* Length of the longest prefix of s whose characters are all in S
\* (a greedy character-class run).
RECURSIVE RunLen(_, _)
RunLen(s, S) ==
    IF s # <<>> /\ Head(s) \in S THEN 1 + RunLen(Tail(s), S) ELSE 0

\* line.match(/^([^\W]*)\W+(.*)$/): group 1 is the leading run of word
\* characters, \W+ greedily takes the whole following run of non-word
\* characters (at least one), group 2 is the rest of the line.
LineMatch(line) ==
    LET w == RunLen(line, WordChars)
        rest == SubSeq(line, w + 1, Len(line))
        n == RunLen(rest, LineChars \ WordChars)
    IN IF n >= 1
       THEN [matched |-> TRUE,
             g1 |-> SubSeq(line, 1, w),
             g2 |-> SubSeq(rest, n + 1, Len(rest))]
       ELSE [matched |-> FALSE]

InvalidLinePrefix == "Invalid line in diff output: "

\* new Error(`Invalid line in diff output: ${line}`)
InvalidLineError(line) ==
    [class |-> "Error", name |-> "Error",
     message |-> <<InvalidLinePrefix>> \o line]

\* The for loop of parse over the lines, with the Map built so far.
RECURSIVE ParseLines(_, _)
ParseLinesNoSkip(lines, map) == \* mutant: an empty line is matched like any other
    IF lines = <<>> THEN [kind |-> "Diff", map |-> map]
    ELSE LET line == Head(lines)
             match == LineMatch(line)
         IN IF match.matched /\ Trim(match.g1) # <<>> /\ Trim(match.g2) # <<>>
            THEN ParseLines(Tail(lines),
                            MapSet(map, Trim(match.g2), Trim(match.g1)))
            ELSE [kind |-> "throw", error |-> InvalidLineError(line)]

ParseLinesSkipBad(lines, map) == \* mutant: a bad line is skipped
    IF lines = <<>> THEN [kind |-> "Diff", map |-> map]
    ELSE LET line == Head(lines)
             match == LineMatch(line)
         IN IF line = <<>> THEN ParseLines(Tail(lines), map)
            ELSE IF match.matched /\ Trim(match.g1) # <<>> /\ Trim(match.g2) # <<>>
                 THEN ParseLines(Tail(lines),
                                 MapSet(map, Trim(match.g2), Trim(match.g1)))
                 ELSE ParseLines(Tail(lines), map)

ParseLinesAppend(lines, map) == \* mutant: every line appends an entry
    IF lines = <<>> THEN [kind |-> "Diff", map |-> map]
    ELSE LET line == Head(lines)
             match == LineMatch(line)
         IN IF line = <<>> THEN ParseLines(Tail(lines), map)
            ELSE IF match.matched /\ Trim(match.g1) # <<>> /\ Trim(match.g2) # <<>>
                 THEN ParseLines(Tail(lines),
                                 Append(map, <<Trim(match.g2), Trim(match.g1)>>))
                 ELSE [kind |-> "throw", error |-> InvalidLineError(line)]

ParseLines(lines, map) ==
    IF lines = <<>> THEN [kind |-> "Diff", map |-> map]
    ELSE LET line == Head(lines)
             match == LineMatch(line)
         IN IF line = <<>> THEN ParseLines(Tail(lines), map)
            ELSE IF match.matched /\ Trim(match.g1) # <<>> /\ Trim(match.g2) # <<>>
                 THEN ParseLines(Tail(lines),
                                 MapSet(map, Trim(match.g2), Trim(match.g1)))
                 ELSE [kind |-> "throw", error |-> InvalidLineError(line)]

\* parse(stdout): a Diff over the Map, or the thrown Error.
parse(text) == ParseLines(Split(text, "\n"), <<>>)

\* Diff.size()
size(d) == Len(d.map)

----------------------------------------------------------------------------
(* SpecParse: parse applied to every text of at most MaxTextLen characters *)

InitParse ==
    /\ stdout \in SeqsUpTo(TextChars, MaxTextLen)
    /\ parsed = None
    /\ blanked = None
    /\ diff = <<>> /\ result = None
    /\ heap = <<>> /\ this_diff = "none" /\ built = <<>> /\ steps = 0
    /\ git = None /\ syncRes = None /\ asyncRes = None /\ asyncPc = "idle"

Parse ==
    /\ parsed = None
    /\ parsed' = parse(stdout)
    /\ UNCHANGED <<stdout, blanked, queryVars, constructVars, diffVars>>

\* The text with the character c put after its first k characters.
InsertAt(text, k, c) ==
    SubSeq(text, 1, k) \o <<c>> \o SubSeq(text, k + 1, Len(text))

\* Where a newline put into the text adds an empty line: at the start, at
\* the end, and next to a newline.
BlankLinePlaces(text) ==
    {k \in 0..Len(text) :
        \/ k = 0
        \/ k = Len(text)
        \/ text[k] = "\n"
        \/ text[k + 1] = "\n"}

\* A text that parsed is parsed again with one empty line more.
InsertBlankLine ==
    /\ parsed.kind = "Diff"
    /\ blanked = None
    /\ \E k \in BlankLinePlaces(stdout) :
         blanked' = [at |-> k,
                     text |-> InsertAt(stdout, k, "\n"),
                     parsed |-> parse(InsertAt(stdout, k, "\n"))]
    /\ UNCHANGED <<stdout, parsed, queryVars, constructVars, diffVars>>

NextParse == Parse \/ InsertBlankLine

SpecParse == InitParse /\ [][NextParse]_vars

----------------------------------------------------------------------------
(* JavaScript values passed as optional arguments                          *)

Undefined == [type |-> "undefined"]
Arr(items) == [type |-> "array", items |-> items]
Str(chars) == [type |-> "string", chars |-> chars]

\* JavaScript truthiness: undefined and '' are falsy, every array is truthy.
Truthy(v) ==
    CASE v.type = "undefined" -> FALSE
      [] v.type = "array" -> TRUE
      [] v.type = "string" -> v.chars # <<>>

\* toArray(value): Array.isArray(value) ? value : value ? [value] : []
toArray(value) ==
    IF value.type = "array" THEN value
    ELSE IF Truthy(value) THEN Arr(<<value.chars>>) ELSE Arr(<<>>)

----------------------------------------------------------------------------
(* glob: the picomatch matcher the queries compile their patterns with     *)

Separator == "/"
Star == "*"

\* One pattern against one path: a literal character matches itself, `*`
\* matches any run (possibly empty) of characters other than the separator.
RECURSIVE GlobMatch(_, _)
GlobMatch(pattern, path) ==
    IF pattern = <<>> THEN path = <<>>
    ELSE IF Head(pattern) = Star
         THEN \/ GlobMatch(Tail(pattern), path)
              \/ /\ path # <<>>
                 /\ Head(path) # Separator
                 /\ GlobMatch(pattern, Tail(path))
         ELSE /\ path # <<>>
              /\ Head(path) = Head(pattern)
              /\ GlobMatch(Tail(pattern), Tail(path))

\* glob(patterns)(path): true when some pattern of the list matches; the
\* matcher of an empty list matches nothing.
glob(patterns, path) ==
    \E i \in 1..Len(patterns) : GlobMatch(patterns[i], path)

----------------------------------------------------------------------------
(* Diff: the queries.  A Diff is modelled by its #diff Map.                *)

Status == [Added |-> "A", Changed |-> "C", Deleted |-> "D",
           Modified |-> "M", Renamed |-> "R", Unknown |-> "X"]

Kinds == {"added", "changed", "deleted", "modified", "renamed", "unknown"}

\* The status code each kind stands for.
CodeOf(k) ==
    CASE k = "added" -> Status.Added
      [] k = "changed" -> Status.Changed
      [] k = "deleted" -> Status.Deleted
      [] k = "modified" -> Status.Modified
      [] k = "renamed" -> Status.Renamed
      [] k = "unknown" -> Status.Unknown

\* Diff.paths(), Diff.statuses(), Diff.entries() as arrays.
paths(m) == MapKeys(m)
statuses(m) == MapValues(m)
entries(m) == m

\* Iterator.prototype.filter with the callback of Diff.filter.
RECURSIVE FilterEntries(_, _, _)
FilterEntries(es, ps, ss) ==
    IF es = <<>> THEN <<>>
    ELSE LET path == Head(es)[1]
             status == Head(es)[2]
             keep ==
                 /\ Truthy(ps) => glob(ps.items, path)
                 /\ Truthy(ss) => Includes(ss.items, status)
         IN (IF keep THEN <<Head(es)>> ELSE <<>>)
                \o FilterEntries(Tail(es), ps, ss)

\* Diff.filter({paths, statuses}); the matcher is glob(paths ?? []).
filterEmptyIsAll(m, ps, ss) == \* mutant: an empty list is no constraint
    NewMap(FilterEntries(entries(m),
                         IF ps.type = "array" /\ ps.items = <<>> THEN Undefined ELSE ps,
                         IF ss.type = "array" /\ ss.items = <<>> THEN Undefined ELSE ss))

filter(m, ps, ss) == NewMap(FilterEntries(entries(m), ps, ss))

added(m, ps) == filter(m, ps, Arr(<<"A">>))
changed(m, ps) == filter(m, ps, Arr(<<"C">>))
deleted(m, ps) == filter(m, ps, Arr(<<"D">>))
modified(m, ps) == filter(m, ps, Arr(<<"M">>))
renamed(m, ps) == filter(m, ps, Arr(<<"R">>))
unknown(m, ps) == filter(m, ps, Arr(<<"X">>))

\* Diff.contains({paths, statuses})
contains(m, ps, ss) == Len(filter(m, ps, ss)) > 0

isAdded(m, p) == contains(m, toArray(p), Arr(<<"A">>))
isChanged(m, p) == contains(m, toArray(p), Arr(<<"C">>))
isDeleted(m, p) == contains(m, toArray(p), Arr(<<"D">>))
isModified(m, p) == contains(m, toArray(p), Arr(<<"M">>))
isRenamed(m, p) == contains(m, toArray(p), Arr(<<"R">>))
isUnknown(m, p) == contains(m, toArray(p), Arr(<<"X">>))

\* The shorthand of kind k, and the is-shorthand of kind k.
Shorthand(k, m, ps) ==
    CASE k = "added" -> added(m, ps)
      [] k = "changed" -> changed(m, ps)
      [] k = "deleted" -> deleted(m, ps)
      [] k = "modified" -> modified(m, ps)
      [] k = "renamed" -> renamed(m, ps)
      [] k = "unknown" -> unknown(m, ps)

IsShorthand(k, m, p) ==
    CASE k = "added" -> isAdded(m, p)
      [] k = "changed" -> isChanged(m, p)
      [] k = "deleted" -> isDeleted(m, p)
      [] k = "modified" -> isModified(m, p)
      [] k = "renamed" -> isRenamed(m, p)
      [] k = "unknown" -> isUnknown(m, p)

\* diff.entries().some(([path, status]) => status === code && matcher(path))
SomeEntry(m, code, patterns) ==
    \E i \in 1..Len(m) : m[i][2] = code /\ glob(patterns, m[i][1])

\* Diff.match(pathOrPaths): the six getters, over glob(toArray(pathOrPaths)).
matchChangedAsModified(m, p) == \* mutant: `changed` tests Status.Modified
    LET patterns == toArray(p).items
    IN [added |-> SomeEntry(m, Status.Added, patterns),
        changed |-> SomeEntry(m, Status.Modified, patterns),
        deleted |-> SomeEntry(m, Status.Deleted, patterns),
        modified |-> SomeEntry(m, Status.Modified, patterns),
        renamed |-> SomeEntry(m, Status.Renamed, patterns),
        unknown |-> SomeEntry(m, Status.Unknown, patterns)]

match(m, p) ==
    LET patterns == toArray(p).items
    IN [added |-> SomeEntry(m, Status.Added, patterns),
        changed |-> SomeEntry(m, Status.Changed, patterns),
        deleted |-> SomeEntry(m, Status.Deleted, patterns),
        modified |-> SomeEntry(m, Status.Modified, patterns),
        renamed |-> SomeEntry(m, Status.Renamed, patterns),
        unknown |-> SomeEntry(m, Status.Unknown, patterns)]

----------------------------------------------------------------------------
(* SpecQuery: one query, with any arguments, on every Diff of at most       *)
(* MaxEntries entries over QueryPaths and StatusCodes                      *)

MaxEntries == 3

\* The status codes of DiffStatus that the model draws entries from: the six
\* named ones and the pass-through code T.
StatusCodes == {"A", "C", "D", "M", "R", "X", "T"}

QueryPaths == {<<"a">>, <<"b">>, <<"a", "/", "b">>}

Patterns == {<<"a">>, <<"*">>, <<"a", "/", "*">>}

PatternLists ==
    {<<>>, <<<<"a">>>>, <<<<"*">>>>, <<<<"a", "/", "*">>>>,
     <<<<"b">>, <<"a">>>>, <<<<"a", "/", "*">>, <<"b">>>>}

StatusLists ==
    {<<>>, <<"A">>, <<"M">>, <<"T">>, <<"M", "A">>, <<"D", "X", "A">>}

\* An optional list argument: omitted, or one of the lists.
OptionalPaths == {Undefined} \cup {Arr(l) : l \in PatternLists}
OptionalStatuses == {Undefined} \cup {Arr(l) : l \in StatusLists}

\* A path-or-paths argument: omitted, one pattern (or ''), or a list.
PathOrPaths ==
    {Undefined} \cup {Str(p) : p \in Patterns \cup {<<"b">>, <<>>}}
                \cup {Arr(l) : l \in PatternLists}

Maps(P, S, n) == {m \in SeqsUpTo(P \X S, n) : IsMap(m)}

InitQuery ==
    /\ diff \in Maps(QueryPaths, StatusCodes, MaxEntries)
    /\ result = None
    /\ stdout = <<>> /\ parsed = None /\ blanked = None
    /\ heap = <<>> /\ this_diff = "none" /\ built = <<>> /\ steps = 0
    /\ git = None /\ syncRes = None /\ asyncRes = None /\ asyncPc = "idle"

Filter ==
    /\ result = None
    /\ \E ps \in OptionalPaths, ss \in OptionalStatuses :
         result' = [kind |-> "filter", paths |-> ps, statuses |-> ss,
                    value |-> filter(diff, ps, ss)]
    /\ UNCHANGED <<diff, parseVars, constructVars, diffVars>>

Contains ==
    /\ result = None
    /\ \E ps \in OptionalPaths, ss \in OptionalStatuses :
         result' = [kind |-> "contains", paths |-> ps, statuses |-> ss,
                    value |-> contains(diff, ps, ss)]
    /\ UNCHANGED <<diff, parseVars, constructVars, diffVars>>

CallShorthand ==
    /\ result = None
    /\ \E k \in Kinds, ps \in OptionalPaths :
         result' = [kind |-> "shorthand", kind_k |-> k, paths |-> ps,
                    value |-> Shorthand(k, diff, ps)]
    /\ UNCHANGED <<diff, parseVars, constructVars, diffVars>>

CallIsShorthand ==
    /\ result = None
    /\ \E k \in Kinds, p \in PathOrPaths :
         result' = [kind |-> "is", kind_k |-> k, paths |-> p,
                    value |-> IsShorthand(k, diff, p)]
    /\ UNCHANGED <<diff, parseVars, constructVars, diffVars>>

Match ==
    /\ result = None
    /\ \E p \in PathOrPaths \ {Undefined} :
         result' = [kind |-> "match", paths |-> p, value |-> match(diff, p)]
    /\ UNCHANGED <<diff, parseVars, constructVars, diffVars>>

NextQuery == Filter \/ Contains \/ CallShorthand \/ CallIsShorthand \/ Match

SpecQuery == InitQuery /\ [][NextQuery]_vars

----------------------------------------------------------------------------
(* SpecConstruct: new Diff(value), then the caller goes on using the value *)
(* it passed                                                               *)

MaxMutations == 2

ConstructPaths == {<<"a">>, <<"b">>}
ConstructStatuses == {"A", "M"}
ConstructPairs == ConstructPaths \X ConstructStatuses

\* The values a caller can pass: nothing, a Map, or an array of pairs.
ConstructorArgs ==
    {Undefined}
        \cup {[type |-> "Map", items |-> m] :
                 m \in Maps(ConstructPaths, ConstructStatuses, MaxEntries)}
        \cup {Arr(a) : a \in SeqsUpTo(ConstructPairs, MaxEntries)}

\* constructor(diff = new Map()): this.#diff = diff instanceof Map ? diff :
\* new Map(diff).  The heap holds the caller's value under "arg"
\* and the Map the constructor makes under "own"; the result is the heap
\* and the reference stored in this.#diff.
constructor(arg) ==
    IF arg.type = "Map"
    THEN [heap |-> [arg |-> arg, own |-> Undefined], this_diff |-> "arg"]
    ELSE IF arg.type = "undefined"
         THEN [heap |-> [arg |-> arg, own |-> [type |-> "Map", items |-> <<>>]],
               this_diff |-> "own"]
         ELSE [heap |-> [arg |-> arg,
                         own |-> [type |-> "Map", items |-> NewMap(arg.items)]],
               this_diff |-> "own"]

\* The entries the Diff shows now (size, paths, statuses, entries and match
\* all read this.#diff).
DiffEntries == heap[this_diff].items

InitConstruct ==
    /\ \E arg \in ConstructorArgs :
         /\ heap = constructor(arg).heap
         /\ this_diff = constructor(arg).this_diff
         /\ built = constructor(arg).heap[constructor(arg).this_diff].items
    /\ steps = 0
    /\ stdout = <<>> /\ parsed = None /\ blanked = None
    /\ diff = <<>> /\ result = None
    /\ git = None /\ syncRes = None /\ asyncRes = None /\ asyncPc = "idle"

\* The caller sets a key of the Map it passed, or pushes a pair onto the
\* array it passed.
CallerSet ==
    /\ steps < MaxMutations
    /\ heap.arg.type \in {"Map", "array"}
    /\ \E k \in ConstructPaths, v \in ConstructStatuses :
         heap' = [heap EXCEPT !.arg.items =
                     IF heap.arg.type = "Map" THEN MapSet(@, k, v)
                     ELSE Append(@, <<k, v>>)]
    /\ steps' = steps + 1
    /\ UNCHANGED <<this_diff, built, parseVars, queryVars, diffVars>>

\* The caller deletes a key of the Map it passed, or removes the pairs of
\* that key from the array it passed.
CallerDelete ==
    /\ steps < MaxMutations
    /\ heap.arg.type \in {"Map", "array"}
    /\ \E k \in ConstructPaths :
         heap' = [heap EXCEPT !.arg.items =
                     IF heap.arg.type = "Map" THEN MapDelete(@, k)
                     ELSE SelectSeq(@, LAMBDA e : e[1] # k)]
    /\ steps' = steps + 1
    /\ UNCHANGED <<this_diff, built, parseVars, queryVars, diffVars>>

NextConstruct == CallerSet \/ CallerDelete

SpecConstruct == InitConstruct /\ [][NextConstruct]_vars

----------------------------------------------------------------------------
(* The error classifier and diffAsync / diffSync                           *)

errorName == "GitDiffError"
badRevisionErrorCode == "BAD_REVISION"

\* Characters of the modelled diagnostic text.  "F" stands for the literal
\* text `fatal: bad revision ` (up to, not including, the quote).
Fatal == "F"
Quote == "'"
StderrChars == {Fatal, Quote, "x", "\n"}

\* A property of a JavaScript object; undefined when absent.
Prop(obj, f) == IF f \in DOMAIN obj THEN obj[f] ELSE Undefined

\* isErrorWithStderr(error): error instanceof Error && !!error.stderr
isErrorWithStderr(error) ==
    Prop(error, "class") = "Error" /\ Truthy(Prop(error, "stderr"))

\* /fatal: bad revision '(.*)'/.exec(text): the leftmost position where the
\* literal is followed, on the same line, by a closing quote; (.*) is greedy
\* and stops at the last quote of that line.
BadRevisionStarts(text) ==
    {i \in 1..Len(text) :
        /\ i + 2 <= Len(text)
        /\ text[i] = Fatal /\ text[i + 1] = Quote
        /\ \E j \in (i + 2)..Len(text) :
             /\ text[j] = Quote
             /\ \A n \in (i + 2)..(j - 1) : text[n] # "\n"}

BadRevisionExec(text) ==
    IF BadRevisionStarts(text) = {} THEN [matched |-> FALSE]
    ELSE LET i == CHOOSE a \in BadRevisionStarts(text) :
                      \A b \in BadRevisionStarts(text) : a <= b
             ends == {j \in (i + 2)..Len(text) :
                         /\ text[j] = Quote
                         /\ \A n \in (i + 2)..(j - 1) : text[n] # "\n"}
             j == CHOOSE a \in ends : \A b \in ends : b <= a
         IN [matched |-> TRUE, g1 |-> SubSeq(text, i + 2, j - 1)]

RefMessagePrefix == "The ref does not exist: "

\* throwGitDiffError(error): what it throws, if it throws.
throwGitDiffErrorNoName(error) == \* mutant: the name is left as Error's
    IF isErrorWithStderr(error) /\ BadRevisionExec(error.stderr.chars).matched
    THEN [threw |-> TRUE,
          error |-> [class |-> "Error", name |-> "Error",
                     code |-> badRevisionErrorCode,
                     message |-> <<RefMessagePrefix>>
                                     \o BadRevisionExec(error.stderr.chars).g1]]
    ELSE [threw |-> FALSE]

throwGitDiffErrorWithRef(error) == \* mutant: the error gets a ref field
    IF isErrorWithStderr(error) /\ BadRevisionExec(error.stderr.chars).matched
    THEN [threw |-> TRUE,
          error |-> [class |-> "Error", name |-> errorName,
                     code |-> badRevisionErrorCode,
                     ref |-> BadRevisionExec(error.stderr.chars).g1,
                     message |-> <<RefMessagePrefix>>
                                     \o BadRevisionExec(error.stderr.chars).g1]]
    ELSE [threw |-> FALSE]

throwGitDiffErrorAnyStderr(error) == \* mutant: every diagnostic is classified
    IF isErrorWithStderr(error)
    THEN [threw |-> TRUE,
          error |-> [class |-> "Error", name |-> errorName,
                     code |-> badRevisionErrorCode,
                     message |-> <<RefMessagePrefix>>
                         \o (IF BadRevisionExec(error.stderr.chars).matched
                             THEN BadRevisionExec(error.stderr.chars).g1
                             ELSE <<"undefined">>)]]
    ELSE [threw |-> FALSE]

throwGitDiffError(error) ==
    IF isErrorWithStderr(error) /\ BadRevisionExec(error.stderr.chars).matched
    THEN [threw |-> TRUE,
          error |-> [class |-> "Error", name |-> errorName,
                     code |-> badRevisionErrorCode,
                     message |-> <<RefMessagePrefix>>
                                     \o BadRevisionExec(error.stderr.chars).g1]]
    ELSE [threw |-> FALSE]

\* The catch block of diffAsync and diffSync: throwGitDiffError(error);
\* throw error.
Catch(error) ==
    IF throwGitDiffError(error).threw
    THEN [kind |-> "throw", error |-> throwGitDiffError(error).error]
    ELSE [kind |-> "throw", error |-> error]

\* execSync: execFileSync(...).toString(), or the error execFileSync throws.
execSync(g) ==
    IF g.kind = "ok" THEN [kind |-> "return", value |-> g.stdout]
    ELSE [kind |-> "throw", error |-> g.error]

\* execAsync: the {stdout, stderr} result of execFileAsync, or its rejection.
execAsync(g) ==
    IF g.kind = "ok"
    THEN [kind |-> "return", value |-> [stdout |-> g.stdout, stderr |-> g.stderr]]
    ELSE [kind |-> "throw", error |-> g.error]

\* diffSync: try { return parse(execSync(...)) } catch (error) { ... }
diffSync(g) ==
    IF execSync(g).kind = "throw" THEN Catch(execSync(g).error)
    ELSE IF parse(execSync(g).value).kind = "throw"
         THEN Catch(parse(execSync(g).value).error)
         ELSE parse(execSync(g).value)

\* diffAsync: try { const {stdout} = await execAsync(...); return
\* parse(stdout) } catch (error) { ... }
diffAsyncUnclassified(g) == \* mutant: no catch, failures propagate as they are
    IF execAsync(g).kind = "throw" THEN execAsync(g)
    ELSE parse(execAsync(g).value.stdout)

diffAsync(g) ==
    IF execAsync(g).kind = "throw" THEN Catch(execAsync(g).error)
    ELSE IF parse(execAsync(g).value.stdout).kind = "throw"
         THEN Catch(parse(execAsync(g).value.stdout).error)
         ELSE parse(execAsync(g).value.stdout)

----------------------------------------------------------------------------
(* SpecDiff: one run of git, observed by diffSync and by diffAsync         *)

MaxStdoutLen == 3
MaxStderrLen == 6

\* What git does: it exits normally with some text on stdout, or the exec
\* call fails with an Error that carries the diagnostic text, an empty one
\* or none.
GitOutcomes ==
    {[kind |-> "ok", stdout |-> t, stderr |-> <<>>] :
        t \in SeqsUpTo(TextChars, MaxStdoutLen)}
      \cup {[kind |-> "fail",
             error |-> [class |-> "Error", name |-> "Error",
                        message |-> <<"Command failed">>, stderr |-> e]] :
               e \in {Undefined} \cup {Str(t) : t \in SeqsUpTo(StderrChars, MaxStderrLen)}}

InitDiff ==
    /\ git \in GitOutcomes
    /\ syncRes = None /\ asyncRes = None /\ asyncPc = "idle"
    /\ stdout = <<>> /\ parsed = None /\ blanked = None
    /\ diff = <<>> /\ result = None
    /\ heap = <<>> /\ this_diff = "none" /\ built = <<>> /\ steps = 0

\* diffSync(): blocks until git is done and returns or throws.
DiffSync ==
    /\ syncRes = None
    /\ syncRes' = diffSync(git)
    /\ UNCHANGED <<git, asyncRes, asyncPc, parseVars, queryVars, constructVars>>

\* diffAsync(): runs up to its await and hands back a pending promise.
DiffAsyncCall ==
    /\ asyncPc = "idle"
    /\ asyncPc' = "awaiting"
    /\ UNCHANGED <<git, syncRes, asyncRes, parseVars, queryVars, constructVars>>

\* git is done: diffAsync resumes after its await and settles the promise.
DiffAsyncResume ==
    /\ asyncPc = "awaiting"
    /\ asyncRes' = diffAsync(git)
    /\ asyncPc' = "done"
    /\ UNCHANGED <<git, syncRes, parseVars, queryVars, constructVars>>

NextDiff == DiffSync \/ DiffAsyncCall \/ DiffAsyncResume

SpecDiff == InitDiff /\ [][NextDiff]_vars

----------------------------------------------------------------------------
(* Claims about the queries (SpecQuery)                                    *)

Range(seq) == {seq[i] : i \in 1..Len(seq)}

\* Position of an entry in a Map.
Pos(m, e) == CHOOSE i \in 1..Len(m) : m[i] = e

\* An entry qualifies for an optional pattern list and an optional status
\* list: each list is omitted or has a member the entry agrees with.
Qualifies(e, ps, ss) ==
    /\ ps = Undefined \/ \E i \in 1..Len(ps.items) : GlobMatch(ps.items[i], e[1])
    /\ ss = Undefined \/ \E j \in 1..Len(ss.items) : ss.items[j] = e[2]

\* C1: filter({paths: P, statuses: S}) holds exactly the entries of the Diff
\* that qualify for P and S, each once, in the Diff's relative order; with
\* both omitted it has the entries of the Diff, and it is empty when no entry
\* qualifies.
C1_FilterSelectsQualifying ==
    result.kind = "filter" =>
        LET v == result.value
            ps == result.paths
            ss == result.statuses
        IN /\ IsMap(v)
           /\ Range(v) = {e \in Range(diff) : Qualifies(e, ps, ss)}
           /\ \A i, j \in 1..Len(v) : i < j => Pos(diff, v[i]) < Pos(diff, v[j])
           /\ (ps = Undefined /\ ss = Undefined) => v = diff
           /\ (\A e \in Range(diff) : ~Qualifies(e, ps, ss)) => v = <<>>

\* A filter by patterns and statuses that kept the first and the third of
\* three entries and dropped the second.
C1_Witness ==
    /\ result.kind = "filter"
    /\ result.paths # Undefined /\ result.statuses # Undefined
    /\ Len(diff) = 3
    /\ result.value = <<diff[1], diff[3]>>

\* A path selector (one pattern or a list of patterns) selects a path.
Selects(s, path) ==
    IF s.type = "string" THEN GlobMatch(s.chars, path)
    ELSE \E i \in 1..Len(s.items) : GlobMatch(s.items[i], path)

Selected(m, s) == {i \in 1..Len(m) : Selects(s, m[i][1])}

\* C2: match(s).k is true exactly when some entry has a path that s selects
\* and the status code of kind k; so all six flags are false when s selects
\* no entry, and exactly one is true when s selects exactly one entry and its
\* status is one of the six named codes.
C2_MatchFlags ==
    result.kind = "match" =>
        LET s == result.paths
            flags == result.value
            on == {k \in Kinds : flags[k]}
        IN /\ \A k \in Kinds :
                flags[k] <=> \E i \in Selected(diff, s) : diff[i][2] = CodeOf(k)
           /\ Selected(diff, s) = {} => on = {}
           /\ \A i \in 1..Len(diff) :
                (Selected(diff, s) = {i} /\ diff[i][2] \in {CodeOf(k) : k \in Kinds})
                    => Cardinality(on) = 1

\* A match by a list of two patterns that selects exactly one of the
\* entries, passes over an entry of another status, and raises exactly the
\* `changed` flag.
C2_Witness ==
    /\ result.kind = "match"
    /\ result.paths.type = "array" /\ Len(result.paths.items) = 2
    /\ Len(diff) >= 2
    /\ \E i \in 1..Len(diff) : diff[i][2] = Status.Added
    /\ Cardinality(Selected(diff, result.paths)) = 1
    /\ {k \in Kinds : result.value[k]} = {"changed"}

\* The paths option a path-or-paths argument stands for: none when omitted,
\* the one path, or the list.
AsPathsOption(p) ==
    CASE p.type = "undefined" -> Undefined
      [] p.type = "string" -> Arr(<<p.chars>>)
      [] p.type = "array" -> p

\* C10: every shorthand of kind k has the entries of filter({paths, statuses:
\* [code of k]}), and every is-shorthand is true exactly when that filter
\* result is non-empty, an omitted path argument being no constraint on paths.
C10_ShorthandsAreFilters ==
    /\ result.kind = "shorthand" =>
          /\ Range(result.value) =
                {e \in Range(diff) :
                    Qualifies(e, result.paths, Arr(<<CodeOf(result.kind_k)>>))}
          /\ \A i, j \in 1..Len(result.value) :
                i < j => Pos(diff, result.value[i]) < Pos(diff, result.value[j])
    /\ result.kind = "is" =>
          (result.value <=>
              \E e \in Range(diff) :
                  Qualifies(e, AsPathsOption(result.paths),
                            Arr(<<CodeOf(result.kind_k)>>)))

----------------------------------------------------------------------------
(* Claims about construction (SpecConstruct)                               *)

\* C9: a Diff is immutable after construction: whatever the caller does to
\* the value it passed to the constructor, the Diff's entries (hence its size,
\* paths, statuses and match results) stay those it had when constructed.
C9_DiffImmutable == DiffEntries = built

----------------------------------------------------------------------------
(* Claims about the parser (SpecParse)                                     *)

\* A line yields a status token and a path: it is a non-empty run of word
\* characters, then a non-empty run of non-word characters, then a rest
\* that starts with a word character.
YieldsBoth(line) ==
    \E a \in 1..Len(line), b \in 1..Len(line) :
        /\ a < b /\ b < Len(line)
        /\ \A i \in 1..a : line[i] \in WordChars
        /\ \A i \in (a + 1)..b : line[i] \notin WordChars
        /\ line[b + 1] \in WordChars

NonEmptyLines(lines) == {i \in 1..Len(lines) : lines[i] # <<>>}

BadLines(lines) == {i \in NonEmptyLines(lines) : ~YieldsBoth(lines[i])}

Least(S) == CHOOSE a \in S : \A b \in S : a <= b

\* C6: when some non-empty line yields no status token and path, parse
\* throws an error whose message carries the first such line, and returns no
\* Diff.
C6_FirstBadLineFailsParse ==
    LET lines == Split(stdout, "\n")
    IN (parsed # None /\ BadLines(lines) # {}) =>
          /\ parsed.kind = "throw"
          /\ parsed.error.message =
                <<InvalidLinePrefix>> \o lines[Least(BadLines(lines))]

\* A text whose first line parses and whose second line is made of word
\* characters only: parse threw on the second line.
C6_Witness ==
    LET lines == Split(stdout, "\n")
    IN /\ parsed.kind = "throw"
       /\ Len(lines) = 2
       /\ YieldsBoth(lines[1])
       /\ lines[2] = <<"A", "M">>

\* C7 as stated: for every text all of whose non-empty lines have a status
\* token and a path, parse returns a Diff whose size is the number of those
\* lines.
C7_SizeIsLineCount ==
    LET lines == Split(stdout, "\n")
    IN (parsed # None /\ BadLines(lines) = {}) =>
          /\ parsed.kind = "Diff"
          /\ size(parsed) = Cardinality(NonEmptyLines(lines))

\* The path parse takes from a line.
PathOf(line) == Trim(LineMatch(line).g2)

\* C7 as amended: for every such text, parse returns a Diff whose size is
\* the number of distinct paths on its non-empty lines; it is the number of
\* non-empty lines exactly when no path is repeated.
C7_SizeIsDistinctPathCount ==
    LET lines == Split(stdout, "\n")
        ne == NonEmptyLines(lines)
    IN (parsed # None /\ BadLines(lines) = {}) =>
          /\ parsed.kind = "Diff"
          /\ size(parsed) = Cardinality({PathOf(lines[i]) : i \in ne})
          /\ size(parsed) <= Cardinality(ne)
          /\ size(parsed) = Cardinality(ne)
                <=> \A i, j \in ne : PathOf(lines[i]) = PathOf(lines[j]) => i = j

\* Two lines with the same path parsed into a Diff of size one.
C7_Witness ==
    LET lines == Split(stdout, "\n")
    IN /\ parsed.kind = "Diff"
       /\ Cardinality(NonEmptyLines(lines)) = 2
       /\ size(parsed) = 1

\* A line made of a single letter, whitespace and a path: one word character,
\* a non-empty run of whitespace, and a non-empty rest that neither starts nor
\* ends with whitespace.
TextStatus(line) == <<line[1]>>

TextPath(line) == TrimStart(SubSeq(line, 2, Len(line)))

WellFormed(line) ==
    /\ Len(line) >= 3
    /\ line[1] \in WordChars
    /\ line[2] \in SpaceChars
    /\ TextPath(line) # <<>>
    /\ TextPath(line)[Len(TextPath(line))] \notin SpaceChars

\* The lines that are the last of the text to name their path.
LastOfPath(lines) ==
    {i \in NonEmptyLines(lines) :
        \A j \in NonEmptyLines(lines) :
            TextPath(lines[j]) = TextPath(lines[i]) => j <= i}

\* C11: for a text whose lines are each a single letter t, whitespace and a
\* path p, parse returns a Diff that holds, for every line (the last one of
\* its path), the entry (p, t) with t as it appeared, and filtering by the
\* statuses [t] selects that entry.
C11_LettersAndPathsRoundTrip ==
    LET lines == Split(stdout, "\n")
        ne == NonEmptyLines(lines)
    IN (parsed # None /\ \A i \in ne : WellFormed(lines[i])) =>
          /\ parsed.kind = "Diff"
          /\ \A i \in LastOfPath(lines) :
                LET e == <<TextPath(lines[i]), TextStatus(lines[i])>>
                IN /\ \E n \in 1..Len(parsed.map) : parsed.map[n] = e
                   /\ \E n \in 1..Len(filter(parsed.map, Undefined, Arr(<<e[2]>>))) :
                         filter(parsed.map, Undefined, Arr(<<e[2]>>))[n] = e

\* The lines of the text that name the path p.
LinesOfPath(lines, p) == {i \in NonEmptyLines(lines) : TextPath(lines[i]) = p}

Greatest(S) == CHOOSE a \in S : \A b \in S : b <= a

\* C12: for a text that parses (its lines each a letter, whitespace and a
\* path), the Diff has one entry per distinct path of the text; it yields the
\* paths in the order of their first lines, each with the status of its last
\* line.
C12_FirstSeenOrderLastStatus ==
    LET lines == Split(stdout, "\n")
        ne == NonEmptyLines(lines)
        m == parsed.map
    IN (parsed.kind = "Diff" /\ \A i \in ne : WellFormed(lines[i])) =>
          /\ IsMap(m)
          /\ {paths(m)[n] : n \in 1..Len(m)} = {TextPath(lines[i]) : i \in ne}
          /\ \A n, k \in 1..Len(m) :
                n < k => Least(LinesOfPath(lines, paths(m)[n]))
                            < Least(LinesOfPath(lines, paths(m)[k]))
          /\ \A n \in 1..Len(m) :
                statuses(m)[n] =
                    TextStatus(lines[Greatest(LinesOfPath(lines, paths(m)[n]))])

\* C13: a text that parses still parses with an empty line put in at the
\* start, at the end or between two lines, and to a Diff of the same entries
\* in the same order.
C13_BlankLinesChangeNothing ==
    blanked # None =>
        /\ blanked.parsed.kind = "Diff"
        /\ entries(blanked.parsed.map) = entries(parsed.map)

\* An empty line was put between the two records of a text, which still
\* parses to its two entries.
C13_Witness ==
    /\ blanked # None
    /\ Len(parsed.map) = 2
    /\ blanked.at > 0 /\ blanked.at < Len(stdout)
    /\ Len(Split(blanked.text, "\n")) = 3
    /\ Split(blanked.text, "\n")[2] = <<>>
    /\ Len(blanked.parsed.map) = 2

----------------------------------------------------------------------------
(* Claims about diffAsync and diffSync (SpecDiff)                          *)

\* The outcomes the two operations have delivered so far.
Settled ==
    (IF syncRes # None THEN {syncRes} ELSE {})
        \cup (IF asyncPc = "done" THEN {asyncRes} ELSE {})

\* The diagnostic text of a failed git command ('' when it has none).
Diagnostic ==
    IF git.kind = "fail" /\ git.error.stderr # Undefined
    THEN git.error.stderr.chars ELSE <<>>

\* The places <<i, j>> where the text reads `fatal: bad revision '` at i and
\* closes the quote at j on the same line.
BadRevisionSpans(text) ==
    {ij \in (1..Len(text)) \X (1..Len(text)) :
        /\ ij[1] + 2 <= ij[2]
        /\ text[ij[1]] = Fatal /\ text[ij[1] + 1] = Quote /\ text[ij[2]] = Quote
        /\ \A n \in (ij[1] + 2)..(ij[2] - 1) : text[n] # "\n"}

\* The reference of the diagnostic: what stands between the quotes of the
\* first such place, up to the last quote of the line.
TheSpan(text) ==
    CHOOSE ij \in BadRevisionSpans(text) :
        \A kl \in BadRevisionSpans(text) :
            ij[1] < kl[1] \/ (ij[1] = kl[1] /\ ij[2] >= kl[2])

TheRef(text) == SubSeq(text, TheSpan(text)[1] + 2, TheSpan(text)[2] - 1)

BadRevision == git.kind = "fail" /\ BadRevisionSpans(Diagnostic) # {}

\* C3: when git fails with a diagnostic containing fatal: bad revision
\* '<ref>', diffSync and diffAsync throw an error named GitDiffError, of code
\* BAD_REVISION and message 'The ref does not exist: <ref>'; no Diff is
\* returned.
C3_BadRevisionClassified ==
    \A res \in Settled :
        BadRevision =>
            /\ res.kind = "throw"
            /\ res.error.name = "GitDiffError"
            /\ res.error.code = "BAD_REVISION"
            /\ res.error.message = <<RefMessagePrefix>> \o TheRef(Diagnostic)

\* Both operations threw the GitDiffError for the reference x, named on the
\* second line of a diagnostic of two lines.
C3_Witness ==
    /\ syncRes # None /\ asyncPc = "done"
    /\ Diagnostic = <<"x", "\n", Fatal, Quote, "x", Quote>>
    /\ syncRes.kind = "throw" /\ syncRes.error.name = "GitDiffError"
    /\ asyncRes.error.message = <<RefMessagePrefix, "x">>

OriginalError ==
    IF git.kind = "fail" THEN git.error ELSE parse(git.stdout).error

\* The try block failed, and not with a recognisable bad revision.
OtherFailure ==
    \/ git.kind = "fail" /\ BadRevisionSpans(Diagnostic) = {}
    \/ git.kind = "ok" /\ BadLines(Split(git.stdout, "\n")) # {}

\* C5: a failure that is no recognisable bad revision (no diagnostic, a
\* diagnostic without the pattern, or an error of parse) is thrown on to the
\* caller as the very error that was raised: never a Diff, never a
\* GitDiffError.
C5_OtherFailuresRethrown ==
    \A res \in Settled :
        OtherFailure =>
            /\ res.kind = "throw"
            /\ res.error = OriginalError
            /\ res.error.name # "GitDiffError"

\* diffSync threw on the error of a git command whose diagnostic opens the
\* quote of a bad revision and never closes it.
C5_Witness ==
    /\ syncRes # None
    /\ git.kind = "fail"
    /\ Diagnostic = <<Fatal, Quote, "x", "\n", Quote>>
    /\ syncRes.kind = "throw"
    /\ syncRes.error = git.error

\* C8: once both have settled, diffSync and diffAsync have the same outcome:
\* Diffs of the same entries in the same order, or errors of the same kind.
C8_SyncAsyncAgree ==
    (syncRes # None /\ asyncPc = "done") =>
        /\ syncRes.kind = asyncRes.kind
        /\ syncRes.kind = "Diff" => syncRes.map = asyncRes.map
        /\ syncRes.kind = "throw" =>
              /\ syncRes.error.name = asyncRes.error.name
              /\ (syncRes.error.name # "GitDiffError"
                    => syncRes.error = OriginalError /\ asyncRes.error = OriginalError)

\* Both settled on a bad revision, diffAsync after diffSync had returned.
C8_Witness ==
    /\ syncRes # None /\ asyncPc = "done"
    /\ BadRevision
    /\ syncRes.kind = "throw" /\ asyncRes.kind = "throw"
    /\ asyncRes.error.name = "GitDiffError"

====
